---- MODULE Spec2Model ----
(***************************************************************************)
(* Verification model of the QA_Server RAG pipeline:                       *)
(*   scripts/ingest.py  - preprocess, header chunking with metadata        *)
(*                        inheritance, metadata extraction, ingestion run  *)
(*   scripts/query.py   - retrieval, prompt assembly, LLM call             *)
(*   app/api.py         - the HTTP endpoint in front of query.py           *)
(*                                                                         *)
(* A markdown text is a sequence of lines.  A line is a pair               *)
(* <<kind, data>>:                                                         *)
(*   <<"h1", t>>    the line "# t"                                         *)
(*   <<"h2", s>>    the line "## s"                                        *)
(*   <<"h3", u>>    the line "### u"                                       *)
(*   <<"text", x>>  a line of prose                                        *)
(*   <<"hash", x>>  a line of prose whose first character is "#" without   *)
(*                  being a heading, such as "#tag"                        *)
(*   <<"blank", "">> an empty (or space-only) line                         *)
(*   <<"ws", "">>   a line such as "\x01 \x01": not empty after strip(),   *)
(*                  and a single space once the splitter has filtered the  *)
(*                  non-printable characters out of it                     *)
(*   <<"img", "">>  a line that holds only an image link ![alt](url)       *)
(*   <<"tag", "">>  a line that holds only an HTML tag <...>               *)
(* Fenced code blocks are outside the alphabet.                            *)
(***************************************************************************)
EXTENDS Integers, Sequences, FiniteSets, TLC

VARIABLES
    \* ---- chunk_markdown_with_headers applied to one text
    text,              \* the argument of chunk_markdown_with_headers
    processed_chunks,  \* its return value
    cpc,               \* "input" before the call, "done" after it
    \* ---- one of the other pure functions applied to one argument
    arg,               \* the argument
    ret,               \* the return value
    fpc,               \* "input" before the call, "done" after it
    \* ---- one ingest_docs run
    pc,                \* position in ingest_docs
    md_files,          \* glob result: sequence of [path, content]
    file_idx,          \* number of files of md_files already processed
    doc_chunks,        \* ingest_docs local doc_chunks
    metadatas,         \* ingest_docs local metadatas
    ids,               \* ingest_docs local ids
    chunk_id,          \* ingest_docs local chunk_id
    split_log,         \* per processed file: what chunk_markdown_with_headers returned
    add_calls,         \* the calls collection.add has received
    \* ---- the query service
    env_key,           \* OPENAI_API_KEY in the environment: "unset", "empty", "set"
    qmod,              \* scripts/query.py: "unloaded", "loaded", "import_error"
    collection,        \* kb_documents: whether it exists, and its chunks
    qpc,               \* position of the request being served
    request,           \* the QueryRequest being served
    results,           \* what collection.query returned
    context_chunks,    \* what retrieve_context returned
    prompt,            \* what create_prompt returned
    store_log,         \* vector-store calls made for the current request
    llm_calls,         \* LLM calls made for the current request
    qkb_outcome,       \* how query_knowledge_base ended for its caller
    response,          \* what the endpoint answered
    served             \* number of requests received so far

chunk_vars == <<text, processed_chunks, cpc, arg, ret, fpc>>
ingest_vars == <<pc, md_files, file_idx, doc_chunks, metadatas, ids, chunk_id,
                 split_log, add_calls>>
query_vars == <<env_key, qmod, collection, qpc, request, results, context_chunks,
                prompt, store_log, llm_calls, qkb_outcome, response, served>>
vars == <<chunk_vars, ingest_vars, query_vars>>

----------------------------------------------------------------------------
\* Bounds of the model

\* longest text given to chunk_markdown_with_headers, in lines
MaxLines == 5
\* most files in one corpus
MaxFiles == 2
\* most chunks in the collection that is queried
MaxStored == 3
\* largest top_k of a request
MaxTopK == 4
\* largest distance the store computes between a query and a chunk
MaxDistance == 2
\* most requests the service receives
MaxRequests == 2
\* longest text given to preprocess_markdown, in segments
MaxSegments == 4
\* most chunks given to format_context
MaxContext == 2
\* most batches the store is sent over the runs of ingest_docs
MaxRuns == 2

Titles == {"T1", "T2"}
Sections == {"S1", "S2"}
Subsections == {"U1"}

HeaderLines == ({"h1"} \X Titles) \cup ({"h2"} \X Sections) \cup ({"h3"} \X Subsections)
BodyLines == {<<"text", "x">>, <<"hash", "x">>, <<"blank", "">>, <<"ws", "">>}
Lines == HeaderLines \cup BodyLines

SeqsUpTo(S, n) == UNION {[1..k -> S] : k \in 0..n}

----------------------------------------------------------------------------
\* Metadata mappings (python dicts keyed by strings)

EmptyMeta == [k \in {} |-> ""]
Put(m, k, v) == [x \in (DOMAIN m) \cup {k} |-> IF x = k THEN v ELSE m[x]]
Drop(m, k) == [x \in (DOMAIN m) \ {k} |-> m[x]]
Has(m, k) == k \in DOMAIN m

----------------------------------------------------------------------------
\* preprocess_markdown: image links and HTML tags are removed, nothing is
\* written in their place, so a line that held only markup is left empty.

preprocess_line(l) == IF l[1] \in {"img", "tag"} THEN <<"blank", "">> ELSE l

preprocess_markdown(t) == [i \in 1..Len(t) |-> preprocess_line(t[i])]

----------------------------------------------------------------------------
\* MarkdownHeaderTextSplitter(headers_to_split_on, strip_headers=False,
\* return_each_line=False).split_text

headers_to_split_on ==
    [h1 |-> [level |-> 1, name |-> "title"],
     h2 |-> [level |-> 2, name |-> "section"],
     h3 |-> [level |-> 3, name |-> "subsection"]]

IsHeader(l) == l[1] \in DOMAIN headers_to_split_on

\* content.split("\n")[-1][0] == "#": the test aggregate_lines_to_chunks
\* makes for "the last line is a header"
StartsWithHash(l) == IsHeader(l) \/ l[1] = "hash"

\* the text of a line after strip() and the removal of non-printable
\* characters is empty exactly for a blank line
StrippedEmpty(l) == l[1] = "blank"

\* pop the headers of the same or a deeper level off the stack, and their
\* keys out of initial_metadata
RECURSIVE PopHeaders(_, _)
PopHeaders(st, level) ==
    IF Len(st.stack) > 0 /\ st.stack[Len(st.stack)].level >= level
    THEN PopHeaders([st EXCEPT !.stack = SubSeq(st.stack, 1, Len(st.stack) - 1),
                               !.im = Drop(st.im, st.stack[Len(st.stack)].name)],
                    level)
    ELSE st

Flush(st) ==
    IF Len(st.cc) > 0
    THEN [st EXCEPT !.lwm = Append(st.lwm, [content |-> st.cc, metadata |-> st.cm]),
                    !.cc = <<>>]
    ELSE st

\* one iteration of the loop over the lines
SplitLine(st, l) ==
    LET after ==
          IF IsHeader(l)
          THEN LET h == headers_to_split_on[l[1]]
                   popped == PopHeaders(st, h.level)
                   pushed == [popped EXCEPT
                                !.stack = Append(popped.stack,
                                    [level |-> h.level, name |-> h.name, data |-> l[2]]),
                                !.im = Put(popped.im, h.name, l[2])]
                   flushed == Flush(pushed)
               IN  [flushed EXCEPT !.cc = Append(flushed.cc, l)]
          ELSE IF ~StrippedEmpty(l)
               THEN [st EXCEPT !.cc = Append(st.cc, l)]
               ELSE Flush(st)
    IN  [after EXCEPT !.cm = after.im]

RECURSIVE SplitLines(_, _, _)
SplitLines(st, t, i) ==
    IF i > Len(t) THEN st ELSE SplitLines(SplitLine(st, t[i]), t, i + 1)

LinesWithMetadata(t) ==
    Flush(SplitLines([lwm |-> <<>>, cc |-> <<>>, cm |-> EmptyMeta,
                      stack |-> <<>>, im |-> EmptyMeta], t, 1)).lwm

\* aggregate_lines_to_chunks
RECURSIVE AggregateLines(_, _, _)
AggregateLines(lwm, i, acc) ==
    IF i > Len(lwm) THEN acc
    ELSE LET line == lwm[i]
             n == Len(acc)
         IN  IF n > 0 /\ acc[n].metadata = line.metadata
             THEN AggregateLines(lwm, i + 1,
                    [acc EXCEPT ![n].content = acc[n].content \o line.content])
             ELSE IF /\ n > 0
                     /\ Cardinality(DOMAIN acc[n].metadata)
                          < Cardinality(DOMAIN line.metadata)
                     /\ StartsWithHash(acc[n].content[Len(acc[n].content)])
                  THEN AggregateLines(lwm, i + 1,
                         [acc EXCEPT ![n].content = acc[n].content \o line.content,
                                     ![n].metadata = line.metadata])
                  ELSE AggregateLines(lwm, i + 1, Append(acc, line))

split_text(t) ==
    LET agg == AggregateLines(LinesWithMetadata(t), 1, <<>>)
    IN  [i \in 1..Len(agg) |->
            [page_content |-> agg[i].content, metadata |-> agg[i].metadata]]

----------------------------------------------------------------------------
\* chunk_markdown_with_headers: the loop that fills in title and section

\* a first title that sticks: the running title wins over the chunk's own
InheritStepStickyTitle(st, chunk) ==
    LET metadata == chunk.metadata
        title == IF st.current_title # "" THEN st.current_title
                 ELSE IF Has(metadata, "title") THEN metadata["title"] ELSE ""
        m1 == Put(metadata, "title", title)
        section == IF Has(m1, "section") THEN m1["section"] ELSE st.current_section
        m2 == Put(m1, "section", section)
    IN  [current_title |-> title,
         current_section |-> section,
         out |-> Append(st.out, [page_content |-> chunk.page_content, metadata |-> m2])]

InheritStep(st, chunk) ==
    LET metadata == chunk.metadata
        title == IF Has(metadata, "title") THEN metadata["title"] ELSE st.current_title
        m1 == Put(metadata, "title", title)
        section == IF Has(m1, "section") THEN m1["section"] ELSE st.current_section
        m2 == Put(m1, "section", section)
    IN  [current_title |-> title,
         current_section |-> section,
         out |-> Append(st.out, [page_content |-> chunk.page_content, metadata |-> m2])]

RECURSIVE InheritLoop(_, _, _)
InheritLoop(st, chunks, i) ==
    IF i > Len(chunks) THEN st ELSE InheritLoop(InheritStep(st, chunks[i]), chunks, i + 1)

chunk_markdown_with_headers(t) ==
    InheritLoop([current_title |-> "", current_section |-> "", out |-> <<>>],
                split_text(t), 1).out

----------------------------------------------------------------------------
\* extract_metadata(file_path, chunk_metadata)

\* a path is the sequence of its components, the file name last; a path that
\* ends in the separator has the empty name
basename(file_path) == file_path[Len(file_path)]

\* the key subsection is always set
extract_metadata_subsection_default(file_path, chunk_metadata) ==
    LET filename == basename(file_path)
        m0 == [source |-> filename, path |-> file_path]
        m1 == Put(m0, "title",
                  IF Has(chunk_metadata, "title") THEN chunk_metadata["title"]
                  ELSE filename)
        m2 == Put(m1, "section",
                  IF Has(chunk_metadata, "section") THEN chunk_metadata["section"]
                  ELSE "")
    IN  Put(m2, "subsection",
            IF Has(chunk_metadata, "subsection") THEN chunk_metadata["subsection"]
            ELSE "")

extract_metadata(file_path, chunk_metadata) ==
    LET filename == basename(file_path)
        m0 == [source |-> filename, path |-> file_path]
        m1 == Put(m0, "title",
                  IF Has(chunk_metadata, "title") THEN chunk_metadata["title"]
                  ELSE filename)
        m2 == Put(m1, "section",
                  IF Has(chunk_metadata, "section") THEN chunk_metadata["section"]
                  ELSE "")
    IN  IF Has(chunk_metadata, "subsection")
        THEN Put(m2, "subsection", chunk_metadata["subsection"])
        ELSE m2

----------------------------------------------------------------------------
\* ingest_docs

\* f"chunk_{chunk_id}"
FormatId(n) == <<"chunk_", n>>

\* not chunk_text.strip(): the lines of a chunk are joined by "  \n", so the
\* text is blank exactly when every line of it is
IsBlankText(page_content) ==
    \A j \in 1..Len(page_content) : page_content[j][1] = "ws"

\* the id of a stored chunk numbered by the index within its file
IdForPerFile(counter, i) == FormatId(i)

\* ids.append(f"chunk_{chunk_id}"): the id comes from the run's counter
IdFor(counter, i) == FormatId(counter)

\* the loop over enumerate(chunks_with_metadata); i is the python index
RECURSIVE StoreChunks(_, _, _, _)
StoreChunks(acc, file_path, chunks, i) ==
    IF i >= Len(chunks) THEN acc
    ELSE LET chunk_text == chunks[i + 1].page_content
             chunk_header_metadata == chunks[i + 1].metadata
         IN  IF IsBlankText(chunk_text)
             THEN StoreChunks(acc, file_path, chunks, i + 1)
             ELSE LET chunk_metadata ==
                        Put(Put(extract_metadata(file_path, chunk_header_metadata),
                                "chunk_id", i),
                            "chunk_total", Len(chunks))
                  IN  StoreChunks(
                        [doc_chunks |-> Append(acc.doc_chunks, chunk_text),
                         metadatas |-> Append(acc.metadatas, chunk_metadata),
                         ids |-> Append(acc.ids, IdFor(acc.chunk_id, i)),
                         chunk_id |-> acc.chunk_id + 1],
                        file_path, chunks, i + 1)

\* the documents the corpus files are drawn from
DocEmpty == <<>>
DocPlain == << <<"text", "x">> >>
DocSections == << <<"h1", "T1">>, <<"h2", "S1">>, <<"text", "x">>,
                  <<"h2", "S2">>, <<"text", "x">> >>
DocTwoTitles == << <<"h1", "T1">>, <<"h2", "S1">>, <<"text", "x">>,
                   <<"h1", "T2">>, <<"text", "x">> >>
DocLeadingWs == << <<"ws", "">>, <<"h1", "T1">>, <<"text", "x">> >>
DocOnlyWs == << <<"ws", "">> >>
DocMarkup == << <<"tag", "">>, <<"h2", "S1">>, <<"img", "">>, <<"text", "x">> >>

IngestDocs == {DocEmpty, DocPlain, DocSections, DocTwoTitles, DocLeadingWs,
               DocOnlyWs, DocMarkup}

FileNames == <<"a.md", "b.md", "c.md", "d.md", "e.md">>
FilePath(i) == <<"docs", FileNames[i]>>

Corpora ==
    UNION {{[i \in 1..n |-> [path |-> FilePath(i), content |-> c[i]]] :
                c \in [1..n -> IngestDocs]} : n \in 0..MaxFiles}

IngestIdle ==
    /\ pc = "idle"
    /\ md_files = <<>>
    /\ file_idx = 0
    /\ doc_chunks = <<>>
    /\ metadatas = <<>>
    /\ ids = <<>>
    /\ chunk_id = 0
    /\ split_log = <<>>
    /\ add_calls = <<>>

\* a start that numbers the chunks from the number of chunks already in the
\* store
StartIngestContinue ==
    /\ pc = "start"
    /\ pc' = "loop"
    /\ doc_chunks' = <<>>
    /\ metadatas' = <<>>
    /\ ids' = <<>>
    /\ chunk_id' = IF add_calls = <<>> THEN 0
                   ELSE add_calls[Len(add_calls)].ids[Len(add_calls[Len(add_calls)].ids)][2] + 1
    /\ UNCHANGED <<md_files, file_idx, split_log, add_calls>>
    /\ UNCHANGED <<chunk_vars, query_vars>>

\* ingest_docs up to the loop: the collection is opened, the files are
\* listed, the accumulators are empty
StartIngest ==
    /\ pc = "start"
    /\ pc' = "loop"
    /\ doc_chunks' = <<>>
    /\ metadatas' = <<>>
    /\ ids' = <<>>
    /\ chunk_id' = 0
    /\ UNCHANGED <<md_files, file_idx, split_log, add_calls>>
    /\ UNCHANGED <<chunk_vars, query_vars>>

\* a loop that writes each file's chunks to the store as it goes
ProcessFileEager ==
    /\ pc = "loop"
    /\ file_idx < Len(md_files)
    /\ LET file == md_files[file_idx + 1]
           chunks_with_metadata ==
               chunk_markdown_with_headers(preprocess_markdown(file.content))
           acc == StoreChunks([doc_chunks |-> <<>>, metadatas |-> <<>>,
                               ids |-> <<>>, chunk_id |-> chunk_id],
                              file.path, chunks_with_metadata, 0)
       IN  /\ doc_chunks' = doc_chunks \o acc.doc_chunks
           /\ metadatas' = metadatas \o acc.metadatas
           /\ ids' = ids \o acc.ids
           /\ chunk_id' = acc.chunk_id
           /\ split_log' = Append(split_log, chunks_with_metadata)
           /\ add_calls' = IF acc.doc_chunks # <<>>
                           THEN Append(add_calls, [documents |-> acc.doc_chunks,
                                                   metadatas |-> acc.metadatas,
                                                   ids |-> acc.ids])
                           ELSE add_calls
    /\ file_idx' = file_idx + 1
    /\ UNCHANGED <<pc, md_files>>
    /\ UNCHANGED <<chunk_vars, query_vars>>

\* a loop whose current_title and current_section outlive a file: the next
\* file starts from those of the last chunk so far
ProcessFileCarry ==
    /\ pc = "loop"
    /\ file_idx < Len(md_files)
    /\ LET file == md_files[file_idx + 1]
           processed_content == preprocess_markdown(file.content)
           earlier == {k \in 1..Len(split_log) : split_log[k] # <<>>}
           last == split_log[CHOOSE k \in earlier : \A x \in earlier : x <= k]
           carried == IF earlier = {}
                      THEN [current_title |-> "", current_section |-> "", out |-> <<>>]
                      ELSE [current_title |-> last[Len(last)].metadata["title"],
                            current_section |-> last[Len(last)].metadata["section"],
                            out |-> <<>>]
           chunks_with_metadata ==
               InheritLoop(carried, split_text(processed_content), 1).out
           acc == StoreChunks([doc_chunks |-> doc_chunks, metadatas |-> metadatas,
                               ids |-> ids, chunk_id |-> chunk_id],
                              file.path, chunks_with_metadata, 0)
       IN  /\ doc_chunks' = acc.doc_chunks
           /\ metadatas' = acc.metadatas
           /\ ids' = acc.ids
           /\ chunk_id' = acc.chunk_id
           /\ split_log' = Append(split_log, chunks_with_metadata)
    /\ file_idx' = file_idx + 1
    /\ UNCHANGED <<pc, md_files, add_calls>>
    /\ UNCHANGED <<chunk_vars, query_vars>>

\* one iteration of the loop over md_files, the file is read
ProcessFile ==
    /\ pc = "loop"
    /\ file_idx < Len(md_files)
    /\ LET file == md_files[file_idx + 1]
           processed_content == preprocess_markdown(file.content)
           chunks_with_metadata == chunk_markdown_with_headers(processed_content)
           acc == StoreChunks([doc_chunks |-> doc_chunks, metadatas |-> metadatas,
                               ids |-> ids, chunk_id |-> chunk_id],
                              file.path, chunks_with_metadata, 0)
       IN  /\ doc_chunks' = acc.doc_chunks
           /\ metadatas' = acc.metadatas
           /\ ids' = acc.ids
           /\ chunk_id' = acc.chunk_id
           /\ split_log' = Append(split_log, chunks_with_metadata)
    /\ file_idx' = file_idx + 1
    /\ UNCHANGED <<pc, md_files, add_calls>>
    /\ UNCHANGED <<chunk_vars, query_vars>>

\* one iteration of the loop over md_files, open() or read() raises: the
\* exception leaves ingest_docs
ReadFails ==
    /\ pc = "loop"
    /\ file_idx < Len(md_files)
    /\ pc' = "aborted"
    /\ UNCHANGED <<md_files, file_idx, doc_chunks, metadatas, ids, chunk_id,
                   split_log, add_calls>>
    /\ UNCHANGED <<chunk_vars, query_vars>>

\* a batch add that is not guarded by "if doc_chunks"
SubmitAlways ==
    /\ pc = "loop"
    /\ file_idx = Len(md_files)
    /\ add_calls' = Append(add_calls, [documents |-> doc_chunks,
                                       metadatas |-> metadatas,
                                       ids |-> ids])
    /\ pc' = "done"
    /\ UNCHANGED <<md_files, file_idx, doc_chunks, metadatas, ids, chunk_id, split_log>>
    /\ UNCHANGED <<chunk_vars, query_vars>>

\* after the loop: one batch add, or nothing when there is nothing to add
Submit ==
    /\ pc = "loop"
    /\ file_idx = Len(md_files)
    /\ add_calls' = IF doc_chunks # <<>>
                    THEN Append(add_calls, [documents |-> doc_chunks,
                                            metadatas |-> metadatas,
                                            ids |-> ids])
                    ELSE add_calls
    /\ pc' = "done"
    /\ UNCHANGED <<md_files, file_idx, doc_chunks, metadatas, ids, chunk_id, split_log>>
    /\ UNCHANGED <<chunk_vars, query_vars>>

\* the corpora ingest_docs finds in the docs directory, run after run
RunCorpora ==
    LET corpus(docs) == [i \in 1..Len(docs) |-> [path |-> FilePath(i), content |-> docs[i]]]
    IN  {corpus(<<>>), corpus(<<DocPlain>>), corpus(<<DocOnlyWs, DocPlain>>),
         corpus(<<DocLeadingWs>>), corpus(<<DocSections, DocTwoTitles>>)}

\* the script is run again on the same store, after a run that ended or
\* aborted: the files are listed anew, what the store was sent stays
RunAgain ==
    /\ pc \in {"done", "aborted"}
    /\ Len(add_calls) < MaxRuns
    /\ pc' = "start"
    /\ md_files' \in RunCorpora
    /\ file_idx' = 0
    /\ split_log' = <<>>
    /\ UNCHANGED <<doc_chunks, metadatas, ids, chunk_id, add_calls>>
    /\ UNCHANGED <<chunk_vars, query_vars>>

----------------------------------------------------------------------------
\* chunk_markdown_with_headers on its own

FunctionIdle ==
    /\ arg = <<>>
    /\ ret = <<>>
    /\ fpc = "idle"

ChunkIdle ==
    /\ text = <<>>
    /\ processed_chunks = <<>>
    /\ cpc = "idle"
    /\ FunctionIdle

ChunkText ==
    /\ cpc = "input"
    /\ processed_chunks' = chunk_markdown_with_headers(text)
    /\ cpc' = "done"
    /\ UNCHANGED <<text, arg, ret, fpc>>
    /\ UNCHANGED <<ingest_vars, query_vars>>

----------------------------------------------------------------------------
\* The vector store behind scripts/query.py

NoCollection == [exists |-> FALSE, chunks |-> <<>>]

StoredChunk(j) ==
    [id |-> FormatId(j - 1),
     document |-> <<"doc", j>>,
     metadata |-> [source |-> FileNames[1], path |-> FilePath(1), title |-> "T1",
                   section |-> IF j % 2 = 1 THEN "S1" ELSE "S2",
                   chunk_id |-> j - 1, chunk_total |-> MaxStored]]

Collections ==
    {NoCollection} \cup
    {[exists |-> TRUE, chunks |-> [j \in 1..n |-> StoredChunk(j)]] : n \in 0..MaxStored}

Min(a, b) == IF a <= b THEN a ELSE b

\* a client call that creates the collection when it is missing
get_or_create_collection(coll) ==
    [ok |-> TRUE, chunks |-> coll.chunks]

\* chroma_client.get_collection: the collection, or the error the client raises
get_collection(coll) ==
    IF coll.exists THEN [ok |-> TRUE, chunks |-> coll.chunks]
    ELSE [ok |-> FALSE, error |-> "collection_not_found"]

\* the position of chunk i when the chunks are ranked by ascending distance
RankOf(dist, i) ==
    1 + Cardinality({j \in DOMAIN dist :
                        dist[j] < dist[i] \/ (dist[j] = dist[i] /\ j < i)})

\* collection.query(query_texts=[query], n_results=top_k): the n_results
\* nearest chunks, fewer when the collection holds fewer; dist[i] is the
\* distance the store computes from the query to chunk i
collection_query(chunks, dist, n_results) ==
    LET n == Min(n_results, Len(chunks))
        at(k) == CHOOSE i \in 1..Len(chunks) : RankOf(dist, i) = k
    IN  [ids |-> << [k \in 1..n |-> chunks[at(k)].id] >>,
         documents |-> << [k \in 1..n |-> chunks[at(k)].document] >>,
         metadatas |-> << [k \in 1..n |-> chunks[at(k)].metadata] >>,
         distances |-> << [k \in 1..n |-> dist[at(k)]] >>]

NoResults == [ids |-> << <<>> >>, documents |-> << <<>> >>,
              metadatas |-> << <<>> >>, distances |-> << <<>> >>]

----------------------------------------------------------------------------
\* scripts/query.py

None == "None"

\* a loop that pairs every chunk with the distance of the first result
retrieve_context_first_distance(res) ==
    [i \in 1..Len(res.documents[1]) |->
        [text |-> res.documents[1][i],
         metadata |-> res.metadatas[1][i],
         distance |-> IF "distances" \in DOMAIN res THEN res.distances[1][1] ELSE None]]

\* the loop of retrieve_context over the store's answer
retrieve_context(res) ==
    [i \in 1..Len(res.documents[1]) |->
        [text |-> res.documents[1][i],
         metadata |-> res.metadatas[1][i],
         distance |-> IF "distances" \in DOMAIN res THEN res.distances[1][i] ELSE None]]

\* A string built from literals and values is the sequence of its pieces.

\* sep.join(items)
RECURSIVE join(_, _)
join(sep, items) ==
    IF items = <<>> THEN <<>>
    ELSE IF Len(items) = 1 THEN <<items[1]>>
    ELSE <<items[1], sep>> \o join(sep, Tail(items))

\* the suffix is added whenever the key is there
section_info_key_present(metadata) ==
    IF Has(metadata, "additional_sections")
    THEN <<metadata["section"], " (Also covers: ">>
             \o join(", ", metadata["additional_sections"]) \o <<")">>
    ELSE <<metadata["section"]>>

\* section_info of format_context
section_info(metadata) ==
    IF Has(metadata, "additional_sections") /\ metadata["additional_sections"] # <<>>
    THEN <<metadata["section"], " (Also covers: ">>
             \o join(", ", metadata["additional_sections"]) \o <<")">>
    ELSE <<metadata["section"]>>

\* format_context: the loop over the chunks from chunk i on
RECURSIVE format_context_from(_, _, _)
format_context_from(formatted_context, chunks, i) ==
    IF i > Len(chunks) THEN formatted_context
    ELSE LET metadata == chunks[i].metadata
         IN  format_context_from(
                 formatted_context
                     \o (<<"\n--- Document: ", metadata["source"], " | Section: ">>
                             \o section_info(metadata) \o <<" ---\n">>)
                     \o <<chunks[i].text>>
                     \o <<"\n">>,
                 chunks, i + 1)

format_context(chunks) == format_context_from(<<>>, chunks, 1)

create_prompt(query, context) == [context |-> context, question |-> query]

----------------------------------------------------------------------------
\* app/api.py and the module initialisation of scripts/query.py

DEFAULT_MODEL == "gpt-3.5-turbo"

\* what os.getenv / os.environ.get can find for OPENAI_API_KEY
EnvValues == {"unset", "empty", "set"}

\* the module-level check of scripts/query.py: "if not OPENAI_API_KEY" raises
\* for a missing and for an empty value
ImportSucceeds(key) == key = "set"

\* a check that never fails
check_api_key_always(key) == TRUE

\* check_api_key: os.environ.get("OPENAI_API_KEY") is not None
check_api_key(key) == key # "unset"

NoRequest == [query |-> "", model |-> DEFAULT_MODEL, top_k |-> 0]
NoOutcome == [kind |-> "none"]
NoResponse == [status |-> 0, detail |-> ""]
AuthError == [status |-> 500, detail |-> "OpenAI API key not found"]
ServerError == [status |-> 500, detail |-> "Internal Server Error"]
Answered == [status |-> 200, detail |-> "answer"]

QueryIdle ==
    /\ env_key = "set"
    /\ qmod = "unloaded"
    /\ collection = NoCollection
    /\ qpc = "idle"
    /\ request = NoRequest
    /\ results = NoResults
    /\ context_chunks = <<>>
    /\ prompt = create_prompt("", <<>>)
    /\ store_log = <<>>
    /\ llm_calls = 0
    /\ qkb_outcome = NoOutcome
    /\ response = NoResponse
    /\ served = 0

\* the service starts: app/api.py imports query, whose first statements read
\* the credential and raise when there is none
LoadQueryModule ==
    /\ qmod = "unloaded"
    /\ qmod' = IF ImportSucceeds(env_key) THEN "loaded" ELSE "import_error"
    /\ UNCHANGED <<env_key, collection, qpc, request, results, context_chunks, prompt,
                   store_log, llm_calls, qkb_outcome, response, served>>
    /\ UNCHANGED <<chunk_vars, ingest_vars>>

\* the variable is set or deleted in the environment of the running service
EnvChange ==
    /\ qmod = "loaded"
    /\ qpc = "idle"
    /\ \E v \in EnvValues \ {env_key} : env_key' = v
    /\ UNCHANGED <<qmod, collection, qpc, request, results, context_chunks, prompt,
                   store_log, llm_calls, qkb_outcome, response, served>>
    /\ UNCHANGED <<chunk_vars, ingest_vars>>

\* POST /api/query up to the call of query_knowledge_base
ReceiveRequest ==
    /\ qmod = "loaded"
    /\ qpc = "idle"
    /\ served < MaxRequests
    /\ \E k \in 1..MaxTopK :
         request' = [query |-> "q", model |-> DEFAULT_MODEL, top_k |-> k]
    /\ served' = served + 1
    /\ results' = NoResults
    /\ context_chunks' = <<>>
    /\ prompt' = create_prompt("", <<>>)
    /\ store_log' = <<>>
    /\ llm_calls' = 0
    /\ qkb_outcome' = NoOutcome
    /\ IF check_api_key(env_key)
       THEN /\ qpc' = "retrieve"
            /\ response' = NoResponse
       ELSE /\ qpc' = "idle"
            /\ response' = AuthError
    /\ UNCHANGED <<env_key, qmod, collection>>
    /\ UNCHANGED <<chunk_vars, ingest_vars>>

\* query_knowledge_base: retrieve_context raises at get_collection, nothing
\* catches it down to the endpoint
RetrieveFails ==
    /\ qpc = "retrieve"
    /\ ~get_collection(collection).ok
    /\ store_log' = Append(store_log, "get_collection")
    /\ qkb_outcome' = [kind |-> "error", error |-> get_collection(collection).error]
    /\ response' = ServerError
    /\ qpc' = "idle"
    /\ UNCHANGED <<env_key, qmod, collection, request, results, context_chunks, prompt,
                   llm_calls, served>>
    /\ UNCHANGED <<chunk_vars, ingest_vars>>

\* query_knowledge_base: retrieve_context, format_context, create_prompt
RetrieveContext ==
    /\ qpc = "retrieve"
    /\ get_collection(collection).ok
    /\ LET chunks == get_collection(collection).chunks
       IN  \E dist \in [1..Len(chunks) -> 0..MaxDistance] :
             LET res == collection_query(chunks, dist, request.top_k)
             IN  /\ results' = res
                 /\ context_chunks' = retrieve_context(res)
                 /\ prompt' = create_prompt(request.query,
                                            format_context(retrieve_context(res)))
    /\ store_log' = store_log \o <<"get_collection", "query">>
    /\ qpc' = "generate"
    /\ UNCHANGED <<env_key, qmod, collection, request, llm_calls, qkb_outcome,
                   response, served>>
    /\ UNCHANGED <<chunk_vars, ingest_vars>>

\* query_knowledge_base: generate_answer returns, the endpoint answers
GenerateAnswer ==
    /\ qpc = "generate"
    /\ llm_calls' = llm_calls + 1
    /\ qkb_outcome' = [kind |-> "ok", query |-> request.query, answer |-> "answer",
                       context_chunks |-> context_chunks, model_used |-> request.model]
    /\ response' = Answered
    /\ qpc' = "idle"
    /\ UNCHANGED <<env_key, qmod, collection, request, results, context_chunks, prompt,
                   store_log, served>>
    /\ UNCHANGED <<chunk_vars, ingest_vars>>

\* a failed LLM call that is tried a second time before the error is raised
GenerateFailsRetry ==
    /\ qpc = "generate"
    /\ llm_calls' = llm_calls + 2
    /\ qkb_outcome' = [kind |-> "error", error |-> "llm_error"]
    /\ response' = ServerError
    /\ qpc' = "idle"
    /\ UNCHANGED <<env_key, qmod, collection, request, results, context_chunks, prompt,
                   store_log, served>>
    /\ UNCHANGED <<chunk_vars, ingest_vars>>

\* query_knowledge_base: the LLM call raises, nothing catches it
GenerateFails ==
    /\ qpc = "generate"
    /\ llm_calls' = llm_calls + 1
    /\ qkb_outcome' = [kind |-> "error", error |-> "llm_error"]
    /\ response' = ServerError
    /\ qpc' = "idle"
    /\ UNCHANGED <<env_key, qmod, collection, request, results, context_chunks, prompt,
                   store_log, served>>
    /\ UNCHANGED <<chunk_vars, ingest_vars>>

----------------------------------------------------------------------------
\* preprocess_markdown on a text of characters

\* the pieces the texts are made of
Segments ==
    { <<"!">>, <<"[", "a", "]">>, <<"(", "u", ")">>, <<"<", "b", ">">>, <<"x">>,
      <<"<">>, <<"\n">>, <<"(">>, <<")">> }

RECURSIVE Flatten(_)
Flatten(segs) == IF segs = <<>> THEN <<>> ELSE Head(segs) \o Flatten(Tail(segs))

MinOf(S) == CHOOSE x \in S : \A y \in S : x <= y

NoNewline(s, a, b) == \A m \in a..b : s[m] # "\n"

\* r'!\[.*?\]\(.*?\)' tried at position i: the position of the last
\* character of the match, 0 when there is no match at i
ImageEnd(s, i) ==
    IF i + 1 <= Len(s) /\ s[i] = "!" /\ s[i + 1] = "["
    THEN LET closes(j) == {k \in (j + 2)..Len(s) :
                              s[k] = ")" /\ NoNewline(s, j + 2, k - 1)}
             Js == {j \in (i + 2)..(Len(s) - 1) :
                       /\ s[j] = "]"
                       /\ s[j + 1] = "("
                       /\ NoNewline(s, i + 2, j - 1)
                       /\ closes(j) # {}}
         IN  IF Js = {} THEN 0 ELSE MinOf(closes(MinOf(Js)))
    ELSE 0

\* r'<[^>]*>' tried at position i
TagEnd(s, i) ==
    IF i <= Len(s) /\ s[i] = "<" /\ {k \in (i + 1)..Len(s) : s[k] = ">"} # {}
    THEN MinOf({k \in (i + 1)..Len(s) : s[k] = ">"})
    ELSE 0

\* re.sub(image pattern, '', s): the positions of s that are kept
RECURSIVE KeepImage(_, _, _)
KeepImage(s, i, kept) ==
    IF i > Len(s) THEN kept
    ELSE IF ImageEnd(s, i) > 0 THEN KeepImage(s, ImageEnd(s, i) + 1, kept)
         ELSE KeepImage(s, i + 1, Append(kept, i))

\* re.sub(tag pattern, '', s): the positions of s that are kept
RECURSIVE KeepTag(_, _, _)
KeepTag(s, i, kept) ==
    IF i > Len(s) THEN kept
    ELSE IF TagEnd(s, i) > 0 THEN KeepTag(s, TagEnd(s, i) + 1, kept)
         ELSE KeepTag(s, i + 1, Append(kept, i))

At(s, positions) == [n \in 1..Len(positions) |-> s[positions[n]]]

\* preprocess_markdown: the text returned, and the positions of the argument
\* its characters come from
preprocess_markdown_text(t) ==
    LET k1 == KeepImage(t, 1, <<>>)
        s1 == At(t, k1)
        k2 == KeepTag(s1, 1, <<>>)
        kept == At(k1, k2)
    IN  [text |-> At(t, kept), kept |-> kept]

PreprocessText ==
    /\ fpc = "input_preprocess"
    /\ ret' = preprocess_markdown_text(arg)
    /\ fpc' = "done"
    /\ UNCHANGED <<text, processed_chunks, cpc, arg>>
    /\ UNCHANGED <<ingest_vars, query_vars>>

----------------------------------------------------------------------------
\* format_context on a list of context chunks

AdditionalSections == {<<>>, <<"S2">>, <<"S2", "S3">>}

\* the metadata a retrieved chunk can carry, with and without the key
\* additional_sections
ContextMetadatas ==
    LET base == {Put(Put(EmptyMeta, "source", src), "section", sec) :
                    src \in {"a.md", "b.md"}, sec \in {"", "S1"}}
    IN  base \cup {Put(m, "additional_sections", a) :
                      m \in base, a \in AdditionalSections}

ContextChunks ==
    {[text |-> t, metadata |-> m] : t \in {"x", "y"}, m \in ContextMetadatas}

FormatContext ==
    /\ fpc = "input_format"
    /\ ret' = format_context(arg)
    /\ fpc' = "done"
    /\ UNCHANGED <<text, processed_chunks, cpc, arg>>
    /\ UNCHANGED <<ingest_vars, query_vars>>

----------------------------------------------------------------------------
\* extract_metadata on a path and the metadata of a chunk

ExtractPaths ==
    {<<"a.md">>, <<"docs", "a.md">>, <<"docs", "sub", "b.md">>, <<"docs", "">>}

\* with(S, k, V): the maps of S, and those maps with key k set to a value of V
WithKey(S, k, V) == S \cup {Put(m, k, v) : m \in S, v \in V}

\* every metadata over the keys title, section and subsection, each absent,
\* empty or set
ChunkMetadatas ==
    WithKey(WithKey(WithKey({EmptyMeta}, "title", {"", "T1"}),
                    "section", {"", "S1"}),
            "subsection", {"", "U1"})

ExtractMetadata ==
    /\ fpc = "input_extract"
    /\ ret' = extract_metadata(arg.file_path, arg.chunk_metadata)
    /\ fpc' = "done"
    /\ UNCHANGED <<text, processed_chunks, cpc, arg>>
    /\ UNCHANGED <<ingest_vars, query_vars>>

----------------------------------------------------------------------------
\* Specifications

\* chunk_markdown_with_headers over every text of at most MaxLines lines
InitChunk ==
    /\ text \in SeqsUpTo(Lines, MaxLines)
    /\ processed_chunks = <<>>
    /\ cpc = "input"
    /\ FunctionIdle
    /\ IngestIdle
    /\ QueryIdle

NextChunk == ChunkText

SpecChunk == InitChunk /\ [][NextChunk]_vars

\* one ingest_docs run over every corpus of at most MaxFiles files
InitIngest ==
    /\ pc = "start"
    /\ md_files \in Corpora
    /\ file_idx = 0
    /\ doc_chunks = <<>>
    /\ metadatas = <<>>
    /\ ids = <<>>
    /\ chunk_id = 0
    /\ split_log = <<>>
    /\ add_calls = <<>>
    /\ ChunkIdle
    /\ QueryIdle

NextIngest == StartIngest \/ ProcessFile \/ ReadFails \/ Submit

SpecIngest == InitIngest /\ [][NextIngest]_vars

\* the query service, from its start
InitQuery ==
    /\ env_key \in EnvValues
    /\ qmod = "unloaded"
    /\ collection \in Collections
    /\ qpc = "idle"
    /\ request = NoRequest
    /\ results = NoResults
    /\ context_chunks = <<>>
    /\ prompt = create_prompt("", <<>>)
    /\ store_log = <<>>
    /\ llm_calls = 0
    /\ qkb_outcome = NoOutcome
    /\ response = NoResponse
    /\ served = 0
    /\ ChunkIdle
    /\ IngestIdle

NextQuery ==
    \/ LoadQueryModule
    \/ EnvChange
    \/ ReceiveRequest
    \/ RetrieveFails
    \/ RetrieveContext
    \/ GenerateAnswer
    \/ GenerateFails

SpecQuery == InitQuery /\ [][NextQuery]_vars

\* preprocess_markdown over every text of at most MaxSegments segments
InitPreprocess ==
    /\ arg \in {Flatten(segs) : segs \in SeqsUpTo(Segments, MaxSegments)}
    /\ ret = <<>>
    /\ fpc = "input_preprocess"
    /\ text = <<>>
    /\ processed_chunks = <<>>
    /\ cpc = "idle"
    /\ IngestIdle
    /\ QueryIdle

NextPreprocess == PreprocessText

SpecPreprocess == InitPreprocess /\ [][NextPreprocess]_vars

\* format_context over every list of at most MaxContext chunks
InitFormat ==
    /\ arg \in SeqsUpTo(ContextChunks, MaxContext)
    /\ ret = <<>>
    /\ fpc = "input_format"
    /\ text = <<>>
    /\ processed_chunks = <<>>
    /\ cpc = "idle"
    /\ IngestIdle
    /\ QueryIdle

NextFormat == FormatContext

SpecFormat == InitFormat /\ [][NextFormat]_vars

\* extract_metadata over every path of ExtractPaths and every chunk metadata
InitExtract ==
    /\ arg \in [file_path : ExtractPaths, chunk_metadata : ChunkMetadatas]
    /\ ret = <<>>
    /\ fpc = "input_extract"
    /\ text = <<>>
    /\ processed_chunks = <<>>
    /\ cpc = "idle"
    /\ IngestIdle
    /\ QueryIdle

NextExtract == ExtractMetadata

SpecExtract == InitExtract /\ [][NextExtract]_vars

\* ingest_docs run again and again on one store
InitRuns ==
    /\ pc = "start"
    /\ md_files \in RunCorpora
    /\ file_idx = 0
    /\ doc_chunks = <<>>
    /\ metadatas = <<>>
    /\ ids = <<>>
    /\ chunk_id = 0
    /\ split_log = <<>>
    /\ add_calls = <<>>
    /\ ChunkIdle
    /\ QueryIdle

NextRuns == StartIngest \/ ProcessFile \/ ReadFails \/ Submit \/ RunAgain

SpecRuns == InitRuns /\ [][NextRuns]_vars

Init == InitChunk \/ InitIngest \/ InitQuery \/ InitPreprocess \/ InitFormat \/ InitExtract
            \/ InitRuns

Next == NextChunk \/ NextIngest \/ NextQuery \/ NextPreprocess \/ NextFormat \/ NextExtract
            \/ NextRuns

Spec == Init /\ [][Next]_vars

----------------------------------------------------------------------------
\* Properties of chunk_markdown_with_headers (SpecChunk)

\* the lines of a text that reach a chunk, in document order
NonBlank(t) == SelectSeq(t, LAMBDA l : ~StrippedEmpty(l))

\* number of lines in the chunks before chunk i
RECURSIVE LinesBefore(_, _)
LinesBefore(chunks, i) ==
    IF i <= 1 THEN 0
    ELSE LinesBefore(chunks, i - 1) + Len(chunks[i - 1].page_content)

\* index of the last line of kind k among the first n lines of t, 0 if none
LastOfKind(t, n, k) ==
    LET hits == {j \in 1..n : t[j][1] = k}
    IN  IF hits = {} THEN 0 ELSE CHOOSE j \in hits : \A x \in hits : x <= j

\* the text of the nearest "#" heading among the first n lines, "" if none
NearestTitle(t, n) ==
    IF LastOfKind(t, n, "h1") = 0 THEN "" ELSE t[LastOfKind(t, n, "h1")][2]

\* a "#" heading is among the first n lines and no "##" heading follows it
TitleWithoutSection(t, n) ==
    /\ LastOfKind(t, n, "h1") > 0
    /\ LastOfKind(t, n, "h2") < LastOfKind(t, n, "h1")

ChunkEnd(chunks, i) == LinesBefore(chunks, i) + Len(chunks[i].page_content)

\* C1: a chunk that follows a new "#" heading and has had no "##" heading
\* since that "#" has section "", not the section of the previous title.
C1_SectionClearedByNewTitle ==
    cpc = "done" =>
        \A i \in 1..Len(processed_chunks) :
            TitleWithoutSection(NonBlank(text), ChunkEnd(processed_chunks, i))
                => processed_chunks[i].metadata["section"] = ""

HoldsHashLine(page_content) ==
    \E j \in 1..Len(page_content) : page_content[j][1] = "hash"

----------------------------------------------------------------------------
\* Properties of ingest_docs (SpecIngest)

StoredOf(file_path) == {j \in 1..Len(metadatas) : metadatas[j]["path"] = file_path}

HasTitleHeading(content) == \E j \in 1..Len(content) : content[j][1] = "h1"
HasSectionHeading(content) == \E j \in 1..Len(content) : content[j][1] = "h2"

\* C2: every chunk stored for a document without any "#" heading has the
\* file's name as title, and section "" when the document has no "##"
\* heading either.
C2_TitleFallsBackToFilename ==
    \A k \in 1..file_idx :
        ~HasTitleHeading(md_files[k].content) =>
            \A j \in StoredOf(md_files[k].path) :
                /\ metadatas[j]["title"] = basename(md_files[k].path)
                /\ ~HasSectionHeading(md_files[k].content)
                       => metadatas[j]["section"] = ""

\* C3: blank chunks are skipped and get no id, and the chunk_total stored on
\* a chunk is the number of chunks stored for its file.
C3_ChunkTotalCountsStored ==
    /\ \A j \in 1..Len(doc_chunks) : ~IsBlankText(doc_chunks[j])
    /\ Len(ids) = Len(doc_chunks)
    /\ \A j \in 1..Len(metadatas) :
           metadatas[j]["chunk_total"] = Cardinality(StoredOf(metadatas[j]["path"]))

FileIndex(file_path) == CHOOSE k \in 1..Len(md_files) : md_files[k].path = file_path

\* C5: the ids of a run are chunk_<n>, pairwise distinct, with n strictly
\* increasing in the order the chunks are stored, which is file order and
\* chunk order within a file; the counter is not reset between files.
C5_IdsUniqueIncreasing ==
    /\ Len(ids) = Len(doc_chunks)
    /\ Len(ids) = Len(metadatas)
    /\ \A j \in 1..Len(ids) : ids[j][1] = "chunk_" /\ ids[j][2] \in Nat
    /\ \A a, b \in 1..Len(ids) : a # b => ids[a] # ids[b]
    /\ \A j \in 1..(Len(ids) - 1) :
          /\ ids[j][2] < ids[j + 1][2]
          /\ \/ FileIndex(metadatas[j]["path"]) < FileIndex(metadatas[j + 1]["path"])
             \/ /\ metadatas[j]["path"] = metadatas[j + 1]["path"]
                /\ metadatas[j]["chunk_id"] < metadatas[j + 1]["chunk_id"]

\* C5 witness: a finished run stored chunks of two files, more than one of
\* the first
C5_Witness ==
    /\ pc = "done"
    /\ \E j \in 2..(Len(ids) - 1) :
          /\ metadatas[j - 1]["path"] = metadatas[j]["path"]
          /\ metadatas[j]["path"] # metadatas[j + 1]["path"]

\* the split of some processed file holds a chunk that is not blank
YieldsChunks ==
    \E k \in 1..Len(split_log) : \E c \in 1..Len(split_log[k]) :
        ~IsBlankText(split_log[k][c].page_content)

\* C6: the store is written at most once per run and only after the last
\* file; a finished run whose corpus yields a chunk has called add exactly
\* once with non-empty sequences of equal length, a finished run whose
\* corpus yields none has not called it.
C6_OneBatchWrite ==
    /\ Len(add_calls) <= 1
    /\ add_calls # <<>> => pc = "done" /\ file_idx = Len(md_files)
    /\ pc = "done" =>
          /\ file_idx = Len(md_files)
          /\ IF YieldsChunks
             THEN /\ Len(add_calls) = 1
                  /\ Len(add_calls[1].documents) > 0
                  /\ Len(add_calls[1].metadatas) = Len(add_calls[1].documents)
                  /\ Len(add_calls[1].ids) = Len(add_calls[1].documents)
             ELSE add_calls = <<>>

\* C6 witness: a finished run over several files has made its one write,
\* with the chunks of more than one file in it
C6_Witness ==
    /\ pc = "done"
    /\ Len(md_files) >= 2
    /\ Len(add_calls) = 1
    /\ \E a, b \in 1..Len(add_calls[1].metadatas) :
          add_calls[1].metadatas[a]["path"] # add_calls[1].metadatas[b]["path"]

\* C7: a run that a failed read has aborted has written nothing to the
\* store, whatever it had collected before, and has not gone on to the files
\* after the one that failed.
C7_AbortWritesNothing ==
    pc = "aborted" =>
        /\ add_calls = <<>>
        /\ file_idx < Len(md_files)
        /\ Len(split_log) = file_idx

\* C7 witness: the read of a later file failed after chunks of an earlier
\* file had been collected
C7_Witness ==
    /\ pc = "aborted"
    /\ file_idx >= 1
    /\ Len(doc_chunks) >= 1
    /\ add_calls = <<>>

----------------------------------------------------------------------------
\* Properties of the query service (SpecQuery)

CountOf(log, call) == Cardinality({j \in 1..Len(log) : log[j] = call})

C9_RetrieveReturnsRankedMin ==
    CountOf(store_log, "query") > 0 =>
        LET n == Len(collection.chunks)
            docs == results.documents[1]
        IN  /\ CountOf(store_log, "query") = 1
            /\ Len(context_chunks) = Min(request.top_k, n)
            /\ Len(docs) = Len(context_chunks)
            /\ \A i \in 1..Len(context_chunks) :
                  /\ context_chunks[i].text = docs[i]
                  /\ context_chunks[i].metadata = results.metadatas[1][i]
                  /\ context_chunks[i].distance = results.distances[1][i]
                  /\ \E j \in 1..n :
                        /\ collection.chunks[j].id = results.ids[1][i]
                        /\ collection.chunks[j].document = context_chunks[i].text
                        /\ collection.chunks[j].metadata = context_chunks[i].metadata
            /\ \A a, b \in 1..Len(context_chunks) :
                  a # b => results.ids[1][a] # results.ids[1][b]
            /\ \A i \in 1..(Len(context_chunks) - 1) :
                  context_chunks[i].distance <= context_chunks[i + 1].distance

\* C9 witness: top_k exceeds the size of a collection of three chunks, and
\* the ranking differs from the order in which the chunks are stored
C9_Witness ==
    /\ qpc = "generate"
    /\ Len(collection.chunks) = 3
    /\ request.top_k > 3
    /\ Len(context_chunks) = 3
    /\ context_chunks[1].text # collection.chunks[1].document
    /\ context_chunks[1].distance < context_chunks[3].distance

\* C10: when the collection does not exist the query ends with the
\* collection-not-found error at its caller, after the one get_collection
\* call, and neither a similarity query nor an LLM call is made.
C10_MissingCollectionSurfaces ==
    /\ [](~collection.exists =>
            /\ llm_calls = 0
            /\ CountOf(store_log, "query") = 0
            /\ CountOf(store_log, "get_collection") <= 1
            /\ qpc # "generate")
    /\ []((qkb_outcome.kind = "error" /\ qkb_outcome.error = "collection_not_found") =>
            /\ ~collection.exists
            /\ store_log = <<"get_collection">>
            /\ response = ServerError)
    /\ [][(qpc = "retrieve" /\ ~collection.exists /\ qpc' # qpc) =>
            /\ qkb_outcome' = [kind |-> "error", error |-> "collection_not_found"]
            /\ qpc' = "idle"
            /\ llm_calls' = 0]_vars

\* C10 witness: a query against a missing collection has ended with the
\* error
C10_Witness ==
    /\ ~collection.exists
    /\ served >= 1
    /\ qkb_outcome = [kind |-> "error", error |-> "collection_not_found"]
    /\ llm_calls = 0

----------------------------------------------------------------------------
\* C11: every query whose retrieval succeeds, also one that retrieves no
\* chunk from an empty collection, goes on to the LLM call; the LLM is called
\* exactly once, after the one similarity query and with the prompt made of
\* the formatted chunks; a failed call ends the query with that error and is
\* not repeated.
C11_LlmCalledOnceAfterRetrieval ==
    /\ [](llm_calls <= 1)
    /\ [](qpc = "generate" =>
            /\ llm_calls = 0
            /\ store_log = <<"get_collection", "query">>
            /\ prompt = create_prompt(request.query, format_context(context_chunks)))
    /\ [](llm_calls = 1 =>
            /\ qpc = "idle"
            /\ store_log = <<"get_collection", "query">>
            /\ qkb_outcome.kind \in {"ok", "error"}
            /\ qkb_outcome.kind = "error" =>
                  qkb_outcome.error = "llm_error" /\ response = ServerError)
    /\ [][(qpc = "retrieve" /\ collection.exists /\ qpc' # qpc) => qpc' = "generate"]_vars
    /\ [][(qpc = "generate" /\ qpc' # qpc) => llm_calls' = 1 /\ qpc' = "idle"]_vars

\* C11 witness: the LLM call made for a query against an empty collection
\* has failed, after one call
C11_Witness ==
    /\ collection.exists
    /\ collection.chunks = <<>>
    /\ context_chunks = <<>>
    /\ store_log = <<"get_collection", "query">>
    /\ llm_calls = 1
    /\ qkb_outcome = [kind |-> "error", error |-> "llm_error"]

----------------------------------------------------------------------------
\* Properties of preprocess_markdown (SpecPreprocess)

HasImage(s) == \E i \in 1..Len(s) : ImageEnd(s, i) > 0
HasTag(s) == \E i \in 1..Len(s) : TagEnd(s, i) > 0

\* C12: for every input text the output of preprocess_markdown holds no image
\* link and no HTML tag.
C12_OutputHasNoMarkup ==
    fpc = "done" => ~HasImage(ret.text) /\ ~HasTag(ret.text)

\* What preprocess_markdown does guarantee: the output holds no HTML tag; it
\* is the input with characters deleted and none added or changed, and is the
\* input itself when the input holds no markup; the "!" of every image link
\* of the input is deleted; an image link in the output is never one of the
\* input: it is made of parts that a deletion has brought together.
PreprocessDeletesOnly ==
    fpc = "done" =>
        /\ ~HasTag(ret.text)
        /\ Len(ret.kept) = Len(ret.text)
        /\ \A n \in 1..Len(ret.kept) :
              /\ ret.kept[n] \in 1..Len(arg)
              /\ ret.text[n] = arg[ret.kept[n]]
              /\ n > 1 => ret.kept[n - 1] < ret.kept[n]
        /\ (~HasImage(arg) /\ ~HasTag(arg)) => ret.text = arg
        /\ \A i \in 1..Len(arg) :
              ImageEnd(arg, i) > 0 => \A n \in 1..Len(ret.kept) : ret.kept[n] # i
        /\ \A i \in 1..Len(ret.text) :
              ImageEnd(ret.text, i) > 0 =>
                  \E n \in i..(ImageEnd(ret.text, i) - 1) :
                      ret.kept[n + 1] # ret.kept[n] + 1

----------------------------------------------------------------------------
\* Properties of format_context (SpecFormat)

\* the positions of the formatted context where a block label starts
BlockStarts(out) == {p \in 1..Len(out) : out[p] = "\n--- Document: "}

\* the last position of the block that starts at p
BlockEnd(out, p) ==
    IF \E q \in BlockStarts(out) : q > p
    THEN MinOf({q \in BlockStarts(out) : q > p}) - 1
    ELSE Len(out)

\* the start of the i-th block
NthStart(out, i) ==
    CHOOSE p \in BlockStarts(out) :
        Cardinality({q \in BlockStarts(out) : q <= p}) = i

HasAdditional(metadata) ==
    Has(metadata, "additional_sections") /\ metadata["additional_sections"] # <<>>

\* C13: the formatted context holds exactly one labeled block per chunk, in
\* the order of the chunks: "Document: <source> | Section: <section>" and
\* then the text of the chunk; the label carries "(Also covers: ...)" exactly
\* when the metadata of the chunk has a non-empty additional_sections.
C13_OneLabeledBlockPerChunk ==
    fpc = "done" =>
        /\ Cardinality(BlockStarts(ret)) = Len(arg)
        /\ arg # <<>> => 1 \in BlockStarts(ret)
        /\ arg = <<>> => ret = <<>>
        /\ \A i \in 1..Len(arg) :
              LET p == NthStart(ret, i)
                  e == BlockEnd(ret, p)
                  metadata == arg[i].metadata
                  additional == metadata["additional_sections"]
              IN  /\ ret[p + 1] = metadata["source"]
                  /\ ret[p + 2] = " | Section: "
                  /\ ret[p + 3] = metadata["section"]
                  /\ ret[e - 2] = " ---\n"
                  /\ ret[e - 1] = arg[i].text
                  /\ ret[e] = "\n"
                  /\ (\E q \in p..e : ret[q] = " (Also covers: ") <=> HasAdditional(metadata)
                  /\ ~HasAdditional(metadata) => e = p + 6
                  /\ HasAdditional(metadata) =>
                        /\ ret[p + 4] = " (Also covers: "
                        /\ e = p + 7 + 2 * Len(additional)
                        /\ ret[e - 3] = ")"
                        /\ \A n \in 1..Len(additional) :
                              /\ ret[p + 3 + 2 * n] = additional[n]
                              /\ n > 1 => ret[p + 2 + 2 * n] = ", "

\* C13 witness: two chunks were formatted, the first with two additional
\* sections, the second with the key additional_sections and an empty list
C13_Witness ==
    /\ fpc = "done"
    /\ Len(arg) = 2
    /\ HasAdditional(arg[1].metadata)
    /\ Len(arg[1].metadata["additional_sections"]) = 2
    /\ Has(arg[2].metadata, "additional_sections")
    /\ ~HasAdditional(arg[2].metadata)
    /\ Cardinality(BlockStarts(ret)) = 2

----------------------------------------------------------------------------
\* Properties of extract_metadata (SpecExtract)

\* C14: extract_metadata returns source = the base name of the path, path =
\* the path as given, title = the title of the chunk when it has one and the
\* file name otherwise, section = the section of the chunk when it has one and
\* "" otherwise (the key is always there), and subsection exactly when the
\* chunk metadata has it, with the same value.
C14_ExtractMetadataFields ==
    fpc = "done" =>
        LET file_path == arg.file_path
            chunk_metadata == arg.chunk_metadata
            filename == file_path[Len(file_path)]
        IN  /\ DOMAIN ret \subseteq {"source", "path", "title", "section", "subsection"}
            /\ {"source", "path", "title", "section"} \subseteq DOMAIN ret
            /\ ret["source"] = filename
            /\ ret["path"] = file_path
            /\ ret["title"] = IF "title" \in DOMAIN chunk_metadata
                              THEN chunk_metadata["title"] ELSE filename
            /\ ret["section"] = IF "section" \in DOMAIN chunk_metadata
                                THEN chunk_metadata["section"] ELSE ""
            /\ "subsection" \in DOMAIN ret <=> "subsection" \in DOMAIN chunk_metadata
            /\ "subsection" \in DOMAIN ret =>
                  ret["subsection"] = chunk_metadata["subsection"]

\* C14 witness: a chunk with no title, no section and no subsection from a
\* file in a nested directory got the file name as title
C14_Witness ==
    /\ fpc = "done"
    /\ arg.file_path = <<"docs", "sub", "b.md">>
    /\ arg.chunk_metadata = EmptyMeta
    /\ ret["title"] = "b.md"
    /\ ret["section"] = ""
    /\ "subsection" \notin DOMAIN ret

----------------------------------------------------------------------------
\* No inheritance across files (SpecIngest)

\* no heading of kind k is at or before the end of chunk i of the chunks of
\* the document doc
NoHeadingYet(doc, chunks, i, k) == LastOfKind(doc, ChunkEnd(chunks, i), k) = 0

\* C15: the title and the section a chunk inherits never come from another
\* file of the run: in every file a chunk that precedes any "#" heading of its
\* file has title "", one that precedes any "##" heading has section "",
\* whatever the files before it held; two files with the same content are
\* chunked alike.
C15_NoInheritanceAcrossFiles ==
    /\ Len(split_log) = file_idx
    /\ \A k \in 1..Len(split_log) :
          LET doc == NonBlank(preprocess_markdown(md_files[k].content))
          IN  \A i \in 1..Len(split_log[k]) :
                  /\ NoHeadingYet(doc, split_log[k], i, "h1")
                        => split_log[k][i].metadata["title"] = ""
                  /\ NoHeadingYet(doc, split_log[k], i, "h2")
                        => split_log[k][i].metadata["section"] = ""
    /\ \A k1, k2 \in 1..Len(split_log) :
          md_files[k1].content = md_files[k2].content => split_log[k1] = split_log[k2]
    /\ \A j \in 1..Len(metadatas) :
          LET content == md_files[FileIndex(metadatas[j]["path"])].content
          IN  /\ ~HasTitleHeading(content) => metadatas[j]["title"] = ""
              /\ ~HasSectionHeading(content) => metadatas[j]["section"] = ""

\* C15 witness: the first file ended under a title and a section, and the
\* chunk of the second file, which has no heading, was stored with neither
C15_Witness ==
    /\ Len(split_log) = 2
    /\ split_log[1] # <<>>
    /\ split_log[1][Len(split_log[1])].metadata["title"] = "T1"
    /\ split_log[1][Len(split_log[1])].metadata["section"] = "S2"
    /\ md_files[2].content = DocPlain
    /\ Len(split_log[2]) = 1
    /\ split_log[2][1].metadata["title"] = ""
    /\ split_log[2][1].metadata["section"] = ""
    /\ \E j \in 1..Len(metadatas) :
          /\ metadatas[j]["path"] = md_files[2].path
          /\ metadatas[j]["title"] = ""
          /\ metadatas[j]["section"] = ""

----------------------------------------------------------------------------
\* Ids over several runs (SpecRuns)

\* chunk_0 .. chunk_{n-1}
IdsFromZero(n) == [j \in 1..n |-> FormatId(j - 1)]

IdSet(call) == {call.ids[j] : j \in 1..Len(call.ids)}

\* C16: every run numbers its ids from chunk_0, whatever the store was sent
\* before: a run that stores N chunks submits exactly chunk_0 .. chunk_{N-1},
\* so any two runs that each stored a chunk submitted ids in common.
C16_EveryRunNumbersFromZero ==
    /\ pc = "loop" =>
          /\ chunk_id = Len(ids)
          /\ ids = IdsFromZero(Len(ids))
    /\ \A c \in 1..Len(add_calls) :
          /\ Len(add_calls[c].ids) >= 1
          /\ Len(add_calls[c].documents) = Len(add_calls[c].ids)
          /\ add_calls[c].ids = IdsFromZero(Len(add_calls[c].ids))
    /\ \A c1, c2 \in 1..Len(add_calls) :
          IdSet(add_calls[c1]) \cap IdSet(add_calls[c2]) # {}

\* C16 witness: a second run on the same store stored fewer chunks than the
\* first, and both submitted chunk_0
C16_Witness ==
    /\ pc = "done"
    /\ Len(add_calls) = 2
    /\ Len(add_calls[2].ids) < Len(add_calls[1].ids)
    /\ add_calls[1].ids[1] = FormatId(0)
    /\ add_calls[2].ids[1] = FormatId(0)
    /\ add_calls[1].documents # add_calls[2].documents

====
